---- MODULE Spec2Model ----
(***************************************************************************)
(* Model of src/youtube_with_replies.py: the duration parser, video        *)
(* discovery and enrichment, the hierarchical comment retriever            *)
(* (get_video_comments), the orchestrator (scrape_comments) and the CSV     *)
(* export.  The remote API is the environment: every response (success or  *)
(* HttpError, items, continuation token) is a nondeterministic choice.     *)
(***************************************************************************)
EXTENDS Integers, Sequences, FiniteSets, TLC

\* ---------------------------------------------------------------- bounds
MaxDigits == 2       \* digits per duration component
MaxVideos == 3       \* items in the search response
MaxPages == 2        \* thread pages per video
MaxItems == 2        \* thread items per thread page
MaxInline == 1       \* inline replies per thread item
MaxReplyPages == 2   \* reply-listing pages per thread
MaxReplies == 2      \* replies per reply-listing page
MaxTotal == 2        \* largest totalReplyCount the API reports
MaxThreads == 3      \* distinct thread identifiers in one run
MaxSuffix == 3       \* distinct replies of one thread in one run
MaxEntities == 5     \* size of a run: comments, replies and continuation
                     \* tokens the API delivers, plus the videos after the
                     \* first
MaxRows == 3         \* rows of the comments file label_comments reads
MaxRuns == 2         \* runs of label_comments on the same output file

\* Python's None in the place of an identifier: no comment has it
None == 0
\* Python's None in the place of a duration token
NoToken == <<"None">>

\* ------------------------------------------------- parse_duration (23-47)
\* the characters 0-9
AsciiDigits == {"0", "1", "2", "3", "4", "5", "6", "7", "8", "9"}

\* decimal digits of other scripts, each written by the name of its code
\* point: ARABIC-INDIC DIGIT TWO and THREE, DEVANAGARI DIGIT ONE, FULLWIDTH
\* DIGIT FIVE; they stand for the rest of the Unicode category Nd
OtherDigits == {"U+0662", "U+0663", "U+0967", "U+FF15"}

\* \d of a str pattern compiled without re.ASCII: any character of the
\* category Nd (37)
Digits == AsciiDigits \cup OtherDigits

\* int() of one decimal digit, of any script
DigitVal(c) ==
  CASE c = "0" -> 0 [] c = "1" -> 1 [] c = "2" -> 2 [] c = "3" -> 3
    [] c = "4" -> 4 [] c = "5" -> 5 [] c = "6" -> 6 [] c = "7" -> 7
    [] c = "8" -> 8 [] c = "9" -> 9
    [] c = "U+0662" -> 2 [] c = "U+0663" -> 3 [] c = "U+0967" -> 1
    [] c = "U+FF15" -> 5

\* int() of the digit string s[p .. p+n-1]
RECURSIVE IntOf(_, _, _)
IntOf(s, p, n) ==
  IF n = 0 THEN 0 ELSE IntOf(s, p, n - 1) * 10 + DigitVal(s[p + n - 1])

\* length of the longest run of digits of s that starts at position p: \d+
RECURSIVE DigitRun(_, _)
DigitRun(s, p) ==
  IF p <= Len(s) /\ s[p] \in Digits THEN 1 + DigitRun(s, p + 1) ELSE 0

\* one optional group (?:(\d+)X)? tried at position p: the value of the
\* captured digits (0 when the group does not take part, "or 0") and the
\* position after the group
MatchGroup(s, p, letter) ==
  LET n == DigitRun(s, p) IN
  IF n >= 1 /\ p + n <= Len(s) /\ s[p + n] = letter
  THEN [val |-> IntOf(s, p, n), next |-> p + n + 1]
  ELSE [val |-> 0, next |-> p]

\* mutant: the minutes are weighted like seconds
DurationSumNoMinutes(hours, minutes, seconds) ==
  hours * 3600 + minutes + seconds

DurationSum(hours, minutes, seconds) ==
  hours * 3600 + minutes * 60 + seconds

parse_duration(duration) ==
  IF duration = NoToken \/ duration = <<>> THEN 0
  ELSE IF ~(Len(duration) >= 2 /\ duration[1] = "P" /\ duration[2] = "T")
  THEN 0
  ELSE LET h == MatchGroup(duration, 3, "H")
           m == MatchGroup(duration, h.next, "M")
           s == MatchGroup(duration, m.next, "S")
       IN DurationSum(h.val, m.val, s.val)

\* ------------------------------------------------------------ the remote API
\* identifiers of the videos the search can return
VideoIds == {100 + k : k \in 1..MaxVideos}
\* identifiers of the threads (of the top-level comments)
ThreadIds == 1..MaxThreads
\* the API names a reply by its thread and a suffix: "<thread id>.<suffix>"
ReplyId(thread, suffix) == 10 * thread + suffix
\* the totalReplyCount values of a thread: no reply, or MaxTotal replies
TotalCounts == {0, MaxTotal}

\* a dictionary lookup with a default: d.get(k, default)
Get(d, k, default) == IF k \in DOMAIN d THEN d[k] ELSE default

\* the empty dictionary {}
EmptyDict == [k \in {} |-> 0]

Larger(a, b) == IF a > b THEN a ELSE b

\* the largest number of the sequence s of natural numbers, 0 for none
SeqMax(s) ==
  CHOOSE m \in {0} \cup {s[j] : j \in 1..Len(s)} : \A j \in 1..Len(s) : s[j] <= m

\* the lists of at most maxLen different numbers of 1..top a response can
\* carry: each number is one the run has seen (1..hi) or the next fresh one,
\* so that each pattern of repeated and new identifiers is drawn once and
\* not once per renaming
FreshSeqs(hi, top, maxLen) ==
  { s \in UNION { [1..n -> 1..top] : n \in 0..maxLen } :
      /\ \A j, k \in 1..Len(s) : j # k => s[j] # s[k]
      /\ \A j \in 1..Len(s) :
           s[j] <= Larger(hi, SeqMax(SubSeq(s, 1, j - 1))) + 1 }

\* item of a search response for video v (snippet fields of the API)
SearchItem(v) ==
  [videoId |-> v, title |-> <<"title", v>>, channelTitle |-> <<"channel", v>>,
   publishedAt |-> <<"published", v>>]

\* the duration token the API reports for video v
DurationTokenOf(v) ==
  IF v = 101 THEN <<"P", "T", "1", "H", "2", "M", "3", "S">>
  ELSE <<"P", "T", "5", "M">>

\* a search item the API sends without a title
SearchItemNoTitle(v) ==
  [videoId |-> v, channelTitle |-> <<"channel", v>>,
   publishedAt |-> <<"published", v>>]

\* the decimal digits of n, as the API writes a count
RECURSIVE DecimalOf(_)
DecimalOf(n) ==
  LET d == CHOOSE c \in AsciiDigits : DigitVal(c) = n % 10 IN
  IF n < 10 THEN <<d>> ELSE Append(DecimalOf(n \div 10), d)

\* item of a videos().list response for video v; the item of video 102
\* carries no statistics, no contentDetails and no description
DetailItem(v) ==
  IF v = 102 THEN [id |-> v, snippet |-> [title |-> <<"title", v>>]]
  ELSE [id |-> v,
        snippet |-> [title |-> <<"title", v>>,
                     description |-> <<"description", v>>],
        statistics |-> [viewCount |-> DecimalOf(v * 10),
                        likeCount |-> DecimalOf(v + 1),
                        commentCount |-> DecimalOf(v + 2)],
        contentDetails |-> [duration |-> DurationTokenOf(v)]]

\* a detail item the API sends without a snippet
DetailItemNoSnippet(v) ==
  [id |-> v, statistics |-> DetailItem(101).statistics]

\* snippet of a comment or reply with identifier c
Snippet(c) ==
  [authorDisplayName |-> <<"author", c>>, textDisplay |-> <<"text", c>>,
   likeCount |-> c, publishedAt |-> <<"at", c>>]

\* a snippet the API sends without the author's display name
SnippetNoAuthor(c) ==
  [textDisplay |-> <<"text", c>>, likeCount |-> c, publishedAt |-> <<"at", c>>]

\* the keys the code reads by indexing, d[k]: of a search item (116-123),
\* of a detail item (71, 81), of a comment's or reply's snippet (178-181,
\* 195-198, 235-238)
SearchKeys == {"videoId", "title", "channelTitle", "publishedAt"}
DetailKeys == {"id", "snippet"}
SnippetKeys == {"authorDisplayName", "textDisplay", "likeCount", "publishedAt"}

\* ---------------------------------------------- get_video_details (50-88)
\* the metadata dict built for one item of the detail response
\* int(stats.get(key, 0))
IntOrZero(stats, key) ==
  IF key \in DOMAIN stats THEN IntOf(stats[key], 1, Len(stats[key])) ELSE 0

VideoDetail(item) ==
  LET stats == Get(item, "statistics", EmptyDict)
      content == Get(item, "contentDetails", EmptyDict)
  IN [view_count |-> IntOrZero(stats, "viewCount"),
      like_count |-> IntOrZero(stats, "likeCount"),
      comment_count |-> IntOrZero(stats, "commentCount"),
      duration |-> parse_duration(Get(content, "duration", <<>>)),
      description |-> Get(item.snippet, "description", "")]

\* the mapping video_id -> metadata for the videos the response holds
get_video_details(present) == [v \in present |-> VideoDetail(DetailItem(v))]

\* mutant: enumerate without start=1
VideoStubRankFromZero(rank, item) ==
  [video_id |-> item.videoId, relevance_rank |-> rank - 1, title |-> item.title,
   channel |-> item.channelTitle, video_published_at |-> item.publishedAt]

\* ------------------------------------------------- search_videos (91-138)
VideoStub(rank, item) ==
  [video_id |-> item.videoId, relevance_rank |-> rank, title |-> item.title,
   channel |-> item.channelTitle, video_published_at |-> item.publishedAt]

\* video.update(details[vid_id]) when vid_id in details
Enrich(video, details) ==
  IF video.video_id \in DOMAIN details
  THEN details[video.video_id] @@ video
  ELSE video

\* mutant: a video without metadata is dropped from the list
EnrichKnownOnly(vids, details) ==
  SelectSeq(vids, LAMBDA video : video.video_id \in DOMAIN details)

\* the loop over the videos that enriches each of them (129-132)
EnrichAll(vids, details) == [k \in 1..Len(vids) |-> Enrich(vids[k], details)]

\* the search responses: the n most relevant videos, n = 0..MaxVideos; the
\* video of rank k has the identifier 100 + MaxVideos + 1 - k
SearchResponses ==
  { [k \in 1..n |-> 100 + MaxVideos + 1 - k] : n \in 0..MaxVideos }

\* ------------------------------------------- get_video_comments (141-264)
\* mutant: the list of the call before is used again
NewCommentsShared(previous) == previous

\* comments = [] (152): a call starts with a list of its own, whatever the
\* list of the call before holds
NewComments(previous) == <<>>

\* mutant: the same page is requested again
ListNextSame(page, has_token) == IF has_token THEN page ELSE None

\* mutant: the page after the next one is requested
ListNextSkips(page, has_token) == IF has_token THEN page + 2 ELSE None

\* list_next (250): the number of the page to request after page, None
\* when the response carries no continuation token
ListNext(page, has_token) == IF has_token THEN page + 1 ELSE None

\* the row of a top-level comment (173-182)
TopRow(video_id, comment_id) ==
  [video_id |-> video_id, comment_id |-> comment_id, parent_id |-> None,
   is_reply |-> FALSE, author |-> Snippet(comment_id).authorDisplayName,
   comment_text |-> Snippet(comment_id).textDisplay,
   comment_like_count |-> Snippet(comment_id).likeCount,
   comment_published_at |-> Snippet(comment_id).publishedAt]

\* mutant: the reply is linked to itself, not to its thread
ReplyRowSelfParent(video_id, reply_id, comment_id) ==
  [video_id |-> video_id, comment_id |-> reply_id, parent_id |-> reply_id,
   is_reply |-> TRUE, author |-> Snippet(reply_id).authorDisplayName,
   comment_text |-> Snippet(reply_id).textDisplay,
   comment_like_count |-> Snippet(reply_id).likeCount,
   comment_published_at |-> Snippet(reply_id).publishedAt]

\* the row of a reply, inline (190-199) or listed (230-239)
ReplyRow(video_id, reply_id, comment_id) ==
  [video_id |-> video_id, comment_id |-> reply_id, parent_id |-> comment_id,
   is_reply |-> TRUE, author |-> Snippet(reply_id).authorDisplayName,
   comment_text |-> Snippet(reply_id).textDisplay,
   comment_like_count |-> Snippet(reply_id).likeCount,
   comment_published_at |-> Snippet(reply_id).publishedAt]

\* any(c["comment_id"] == reply_id for c in comments) (226)
AlreadyHave(comments, reply_id) ==
  \E k \in 1..Len(comments) : comments[k].comment_id = reply_id

\* mutant: the replies are listed also when the inline replies are all
NeedsMoreRepliesOrEqual(total_reply_count, fetched_replies) ==
  total_reply_count >= fetched_replies

\* total_reply_count > fetched_replies (207)
NeedsMoreReplies(total_reply_count, fetched_replies) ==
  total_reply_count > fetched_replies

\* the top-level row and the inline replies of one thread item (168-201)
RECURSIVE AppendInline(_, _, _, _)
AppendInline(comments, video_id, comment_id, inline) ==
  IF inline = <<>> THEN comments
  ELSE AppendInline(Append(comments, ReplyRow(video_id, inline[1], comment_id)),
                    video_id, comment_id, Tail(inline))

\* mutant: a listed reply is put in front of the rows, comments.insert(0, ...)
RECURSIVE AppendListedAtFront(_, _, _, _)
AppendListedAtFront(comments, video_id, comment_id, replies) ==
  IF replies = <<>> THEN comments
  ELSE AppendListedAtFront(
         IF \E k \in 1..Len(comments) : comments[k].comment_id = replies[1]
         THEN comments
         ELSE <<[video_id |-> video_id, comment_id |-> replies[1],
                 parent_id |-> comment_id, is_reply |-> TRUE,
                 author |-> <<"author", replies[1]>>,
                 comment_text |-> <<"text", replies[1]>>,
                 comment_like_count |-> replies[1],
                 comment_published_at |-> <<"at", replies[1]>>]>> \o comments,
         video_id, comment_id, Tail(replies))

\* the replies of one reply-listing page, skipping the ones already there
\* (223-241)
RECURSIVE AppendListed(_, _, _, _)
AppendListed(comments, video_id, comment_id, replies) ==
  IF replies = <<>> THEN comments
  ELSE AppendListed(
         IF AlreadyHave(comments, replies[1]) THEN comments
         ELSE Append(comments, ReplyRow(video_id, replies[1], comment_id)),
         video_id, comment_id, Tail(replies))

\* what get_video_comments returns from its HttpError handler (259-264)
OnThreadError(comments) == <<>>

\* --------------------------------------------- scrape_comments (319-419)
\* mutant: the like count is read from the view count
DecorateLikesFromViews(comment, video) ==
  [relevance_rank |-> IF "relevance_rank" \in DOMAIN video
                      THEN video.relevance_rank ELSE 0,
   video_title |-> video.title,
   video_channel |-> video.channel,
   video_published_at |-> video.video_published_at,
   video_view_count |-> IF "view_count" \in DOMAIN video THEN video.view_count ELSE 0,
   video_like_count |-> IF "view_count" \in DOMAIN video THEN video.view_count ELSE 0,
   video_comment_count |-> IF "comment_count" \in DOMAIN video
                           THEN video.comment_count ELSE 0,
   video_duration |-> IF "duration" \in DOMAIN video THEN video.duration ELSE 0,
   video_description |-> IF "description" \in DOMAIN video
                         THEN video.description ELSE ""] @@ comment

\* the video metadata added to one comment (369-378)
Decorate(comment, video) ==
  [relevance_rank |-> Get(video, "relevance_rank", 0),
   video_title |-> video.title,
   video_channel |-> video.channel,
   video_published_at |-> Get(video, "video_published_at", ""),
   video_view_count |-> Get(video, "view_count", 0),
   video_like_count |-> Get(video, "like_count", 0),
   video_comment_count |-> Get(video, "comment_count", 0),
   video_duration |-> Get(video, "duration", 0),
   video_description |-> Get(video, "description", "")] @@ comment

DecorateAll(comments, video) ==
  [k \in 1..Len(comments) |-> Decorate(comments[k], video)]

\* mutant: every row is counted as a top-level comment
CountTopEveryRow(comments) == Len(comments)

\* sum(1 for c in comments if not c.get("is_reply", False)) (363)
CountTop(comments) ==
  Cardinality({k \in 1..Len(comments) : ~comments[k].is_reply})

\* sum(1 for c in comments if c.get("is_reply", False)) (364)
CountReplies(comments) ==
  Cardinality({k \in 1..Len(comments) : comments[k].is_reply})

\* the columns of the export (390-408)
fieldnames ==
  <<"video_id", "comment_id", "parent_id", "is_reply", "relevance_rank",
    "video_title", "video_channel", "video_published_at", "video_view_count",
    "video_like_count", "video_comment_count", "video_duration",
    "video_description", "author", "comment_text", "comment_like_count",
    "comment_published_at">>

\* one cell as csv.DictWriter writes it: None as the empty string, a boolean
\* as True / False, a number in decimal, text as it is
CsvCell(name, x) ==
  IF name = "parent_id" THEN (IF x = None THEN "" ELSE ToString(x))
  ELSE IF name = "is_reply" THEN (IF x THEN "True" ELSE "False")
  ELSE IF name \in {"video_id", "comment_id", "relevance_rank",
                    "video_view_count", "video_like_count",
                    "video_comment_count", "video_duration",
                    "comment_like_count"} THEN ToString(x)
  ELSE x

CsvRow(comment) ==
  [k \in 1..Len(fieldnames) |-> CsvCell(fieldnames[k], comment[fieldnames[k]])]

\* mutant: output_file is opened for appending
OpenAppend(old) == old

\* open(output_file, "w") truncates the file (389)
OpenW(old) == <<>>

\* what writeheader and writerows write (409-411)
WriteCsv(all_comments) ==
  <<fieldnames>> \o [k \in 1..Len(all_comments) |-> CsvRow(all_comments[k])]

\* mutant: the accumulator is replaced, all_comments = comments
ExtendReplacing(all, comments) == comments

\* all_comments.extend(comments) (380)
Extend(all, comments) == all \o comments

\* mutant: the failed reply listing is handled like a failed thread request
OnReplyErrorDropsRows(comments) == <<>>

\* the except handler of a failed reply listing keeps the rows (245-247)
OnReplyError(comments) == comments

\* ------------------------------------------------------------------ state
VARIABLES
  pc,                 \* where the run is: the next remote call or step
  videos,             \* search_videos' result
  vi,                 \* scrape_comments' loop index i
  comments,           \* get_video_comments' list
  pending,            \* thread items of the current page still to process
  more,               \* the current thread page carries a continuation token
  pg,                 \* number of the thread page, within the video
  cur,                \* the thread item whose replies are being listed
  rp,                 \* reply-listing requests executed for cur
  all_comments,       \* scrape_comments' accumulator
  total_top_comments, \* running total of top-level comments
  total_replies,      \* running total of replies
  file,               \* content of output_file
  file_before,        \* content of output_file when the run started
  writes,             \* times output_file has been opened for writing
  fault,              \* the exception that left scrape_comments, or none
  delay,              \* tenths of a second slept since the last remote call
  vstate,             \* per video: PENDING, DONE, DISABLED or FAILED
  delivered,          \* per video: what the API delivered, in order
  api,                \* how the search and the detail call went
  fresh,              \* largest thread identifier the API has used
  used,               \* size of what the API has delivered
  token,              \* parse_duration's argument
  parts,              \* the components token was built from
  dur_pc,             \* parse_duration called or not
  dur_result,         \* parse_duration's result
  label_pc,           \* where label_comments is
  df,                 \* label_comments' data frame: the joined input rows
  max_comments,       \* label_comments' argument of the current run
  labeled_file,       \* label_comments' output_file: absent, or its rows
  processed_indices,  \* what load_checkpoint returned
  results,            \* label_comments' list of labelled rows
  li,                 \* position of the for loop in df
  skipped,            \* label_comments' counter of rows already processed
  earlier,            \* labeled_file when the current run started
  calls,              \* row indices given to label_sentiment in this run
  saves,              \* writes of labeled_file in this run
  runs,               \* runs of label_comments started so far
  label_delay         \* tenths of a second label_comments is sleeping for

vars ==
  <<pc, videos, vi, comments, pending, more, pg, cur, rp, all_comments,
    total_top_comments, total_replies, file, file_before, writes, fault,
    delay, vstate, delivered, api, fresh, used, token, parts, dur_pc,
    dur_result, label_pc, df, max_comments, labeled_file, processed_indices,
    results, li, skipped, earlier, calls, saves, runs, label_delay>>

durVars == <<token, parts, dur_pc, dur_result>>
labelVars ==
  <<label_pc, df, max_comments, labeled_file, processed_indices, results, li,
    skipped, earlier, calls, saves, runs, label_delay>>
runVars ==
  <<pc, videos, vi, comments, pending, more, pg, cur, rp, all_comments,
    total_top_comments, total_replies, file, file_before, writes, fault,
    delay, vstate, delivered, api, fresh, used>>

NoFile == <<>>
OldFile == <<<<"an earlier file">>>>
NoThread == [id |-> None, total |-> 0, fetched |-> 0]
NoParts == [h |-> <<>>, m |-> <<>>, s |-> <<>>]
\* no search call and no detail call yet
NoCalls == [search |-> "none", found |-> <<>>, details |-> "none", present |-> {}]

\* the memory of a process that holds no run: before the run starts, and
\* after an exception has left scrape_comments
NoRun ==
  /\ videos = <<>>
  /\ vi = 0
  /\ comments = <<>>
  /\ pending = 0
  /\ more = FALSE
  /\ pg = 0
  /\ cur = NoThread
  /\ rp = 0
  /\ all_comments = <<>>
  /\ total_top_comments = 0
  /\ total_replies = 0
  /\ vstate = [k \in 1..MaxVideos |-> "PENDING"]
  /\ delivered = [k \in 1..MaxVideos |-> <<>>]
  /\ api = NoCalls
  /\ fresh = 0
  /\ used = 0

\* the state of a run that has not started
RunIdle ==
  /\ pc = "start"
  /\ NoRun
  /\ writes = 0
  /\ fault = "none"
  /\ delay = 0

DurIdle ==
  /\ token = <<>>
  /\ parts = NoParts
  /\ dur_pc = "idle"
  /\ dur_result = 0

\* label_comments has not been started and there is no output file of it
Absent == [exists |-> FALSE, rows |-> <<>>]

LabelIdle ==
  /\ label_pc = "idle"
  /\ df = <<>>
  /\ max_comments = None
  /\ labeled_file = Absent
  /\ processed_indices = {}
  /\ results = <<>>
  /\ li = 0
  /\ skipped = 0
  /\ earlier = Absent
  /\ calls = {}
  /\ saves = 0
  /\ runs = 0
  /\ label_delay = 0

Init ==
  /\ RunIdle
  /\ file \in {NoFile, OldFile}
  /\ file_before = file
  /\ DurIdle
  /\ LabelIdle

\* ------------------------------------------------------- run: exceptions
\* what request.execute() raises when the remote call fails: HttpError for
\* an error response of the API (quota exceeded is one), TimeoutError when
\* the transport gives up; the second is not a subclass of the first
RemoteErrors == {"HttpError", "TimeoutError"}

\* the handlers: each of the four call sites sits in a try whose only
\* clause is "except HttpError" (86, 136, 245, 259)
Caught(site, exc) == exc = "HttpError"

\* d[k] for a k of keys raises KeyError
KeyError(d, keys) == \E k \in keys : k \notin DOMAIN d

\* an exception no handler catches leaves scrape_comments: the process ends
\* with its memory; output_file is as it was
Crash(exc) ==
  /\ pc' = "crashed"
  /\ fault' = exc
  /\ delay' = 0
  /\ videos' = <<>>
  /\ vi' = 0
  /\ comments' = <<>>
  /\ pending' = 0
  /\ more' = FALSE
  /\ pg' = 0
  /\ cur' = NoThread
  /\ rp' = 0
  /\ all_comments' = <<>>
  /\ total_top_comments' = 0
  /\ total_replies' = 0
  /\ vstate' = [k \in 1..MaxVideos |-> "PENDING"]
  /\ delivered' = [k \in 1..MaxVideos |-> <<>>]
  /\ api' = NoCalls
  /\ fresh' = 0
  /\ used' = 0
  /\ UNCHANGED <<file, writes>>
  /\ UNCHANGED <<file_before, durVars, labelVars>>

\* ------------------------------------------------------------ run: start
\* scrape_comments without an API key prints an error and returns (328-330)
NoApiKey ==
  /\ pc = "start"
  /\ pc' = "ended"
  /\ UNCHANGED <<videos, vi, comments, pending, more, pg, cur, rp,
                 all_comments, total_top_comments, total_replies, file, writes,
                 fault, delay, vstate, delivered, api, fresh, used>>
  /\ UNCHANGED <<file_before, durVars, labelVars>>

\* scrape_comments up to the search call (332-343)
Start ==
  /\ pc = "start"
  /\ pc' = "search"
  /\ UNCHANGED <<videos, vi, comments, pending, more, pg, cur, rp,
                 all_comments, total_top_comments, total_replies, file, writes,
                 fault, delay, vstate, delivered, api, fresh, used>>
  /\ UNCHANGED <<file_before, durVars, labelVars>>

\* mutant: scrape_comments goes on with an empty video list
AfterSearchGoesOn(found) == "details"

\* search_videos has returned found: scrape_comments returns after
\* "No videos found." when the list is empty (346-348)
AfterSearch(found) == IF found = <<>> THEN "ended" ELSE "details"

\* search_videos returns [] from its handler (136-138)
SearchFailed ==
  /\ videos' = <<>>
  /\ api' = [api EXCEPT !.search = "error"]
  /\ pc' = AfterSearch(<<>>)
  /\ UNCHANGED <<vi, comments, pending, more, pg, cur, rp, all_comments,
                 total_top_comments, total_replies, file, writes, fault,
                 delay, vstate, delivered, fresh, used>>
  /\ UNCHANGED <<file_before, durVars, labelVars>>

\* the search call fails: an HttpError is caught (111, 136-138), another
\* exception leaves scrape_comments
SearchError ==
  /\ pc = "search"
  /\ \E exc \in RemoteErrors :
       IF Caught("search", exc) THEN SearchFailed
       ELSE Crash(exc)

\* the search call answers: the stubs are built in response order (113-125);
\* with no item get_video_details returns {} without a call (61-62) and
\* scrape_comments returns (346-348)
SearchOk ==
  /\ pc = "search"
  /\ \E resp \in SearchResponses :
       /\ videos' = [k \in 1..Len(resp) |-> VideoStub(k, SearchItem(resp[k]))]
       /\ api' = [api EXCEPT !.search = "ok", !.found = resp]
       /\ pc' = AfterSearch(resp)
  /\ UNCHANGED <<vi, comments, pending, more, pg, cur, rp, all_comments,
                 total_top_comments, total_replies, file, writes, fault,
                 delay, vstate, delivered, fresh, used>>
  /\ UNCHANGED <<file_before, durVars, labelVars>>

\* the search call answers with an item that has no title: item["snippet"]
\* ["title"] raises KeyError inside a try that catches HttpError (121)
SearchMalformed ==
  /\ pc = "search"
  /\ \E v \in VideoIds : KeyError(SearchItemNoTitle(v), SearchKeys)
  /\ ~Caught("search", "KeyError")
  /\ Crash("KeyError")

\* the rest of search_videos and scrape_comments up to the first thread
\* request, given the metadata mapping (127-134, 344-360)
EnrichAndBegin(details) ==
  /\ videos' = EnrichAll(videos, details)
  /\ vi' = 1
  /\ pg' = 1
  /\ comments' = NewComments(comments)
  /\ pc' = "thread_page"
  /\ UNCHANGED <<pending, more, cur, rp, all_comments, total_top_comments,
                 total_replies, file, writes, fault, delay, vstate, delivered,
                 fresh, used>>
  /\ UNCHANGED <<file_before, durVars, labelVars>>

\* the detail call fails; an HttpError: no metadata (68, 86-88); were it not
\* caught there, search_videos' handler would take it (136-138)
DetailsError ==
  /\ pc = "details"
  /\ \E exc \in RemoteErrors :
       IF Caught("details", exc)
       THEN /\ EnrichAndBegin(EmptyDict)
            /\ api' = [api EXCEPT !.details = "error"]
       ELSE IF Caught("search", exc) THEN SearchFailed
       ELSE Crash(exc)

\* the detail call answers with the items of all the videos, or of all but
\* one that the API no longer knows (68-84)
DetailsOk ==
  /\ pc = "details"
  /\ LET asked == {videos[k].video_id : k \in 1..Len(videos)} IN
     \E present \in {asked} \cup {asked \ {v} : v \in asked} :
       /\ EnrichAndBegin(get_video_details(present))
       /\ api' = [api EXCEPT !.details = "ok", !.present = present]

\* the detail call answers with an item that has no snippet: item["snippet"]
\* raises KeyError, which neither get_video_details nor search_videos
\* catches (81)
DetailsMalformed ==
  /\ pc = "details"
  /\ \E v \in VideoIds : KeyError(DetailItemNoSnippet(v), DetailKeys)
  /\ ~Caught("details", "KeyError")
  /\ ~Caught("search", "KeyError")
  /\ Crash("KeyError")

\* ------------------------------------------------- run: one video's retrieval
\* a continuation token counts one in the size of a run
Cost(next) == IF next THEN 1 ELSE 0

\* one entry of the log of what the API delivered for a video: an answered
\* thread request (thread_page, id: the number of the page, parent: 1 when
\* it carries a continuation token, total: its number of items), a thread
\* item (top) and its inline replies, an answered reply-listing request
\* (reply_page) and its replies (listed), a failed reply-listing request
\* (reply_error), a failed thread request (thread_error)
Delivery(kind, id, parent, total) ==
  [kind |-> kind, id |-> id, parent |-> parent, total |-> total]

Log(event) == delivered' = [delivered EXCEPT ![vi] = Append(@, event)]

LogAll(events) == delivered' = [delivered EXCEPT ![vi] = @ \o events]

\* what the API may still deliver in this run: comments, replies and
\* continuation tokens
Budget == MaxEntities - (Len(videos) - 1) - used

\* time.sleep(0.2) before a reply-listing request is executed (219), in
\* tenths of a second
SleepBeforeReplies == 2

\* time.sleep(0.5) before the next thread request (254)
PageDelay == 5

\* time.sleep(1) between two videos (385)
VideoDelay == 10

\* if request: time.sleep(0.5) (253-254)
SleepBetweenPages(request) == IF request # None THEN PageDelay ELSE 0

\* mutant: the delay is taken after the last video too
SleepAfterEveryVideo(i, n) == VideoDelay

\* if i < len(videos): time.sleep(1) (384-385)
SleepBetweenVideos(i, n) == IF i < n THEN VideoDelay ELSE 0

\* mutant: the export is written whether or not a row was collected
ShouldExportAlways(all) == TRUE

\* if all_comments: (388)
ShouldExport(all) == all # <<>>

\* mutant: the loop stays on the video it has just finished
NextIndexSame(i) == i

\* the loop over the videos goes to the next one (356)
NextIndex(i) == i + 1

\* the rest of scrape_comments' loop body once get_video_comments has
\* returned result (363-385), and after the last video the export (388-419)
FinishVideo(result, outcome) ==
  /\ total_top_comments' = total_top_comments + CountTop(result)
  /\ total_replies' = total_replies + CountReplies(result)
  /\ all_comments' = Extend(all_comments, DecorateAll(result, videos[vi]))
  /\ vstate' = [vstate EXCEPT ![vi] = outcome]
  /\ comments' = NewComments(result)
  /\ delay' = SleepBetweenVideos(vi, Len(videos))
  /\ pending' = 0
  /\ more' = FALSE
  /\ cur' = NoThread
  /\ rp' = 0
  /\ IF vi < Len(videos)
     THEN /\ vi' = NextIndex(vi)
          /\ pg' = 1
          /\ pc' = "thread_page"
          /\ UNCHANGED <<file, writes>>
     ELSE /\ vi' = vi
          /\ pg' = 0
          /\ pc' = "done"
          /\ IF ShouldExport(all_comments')
             THEN /\ file' = OpenW(file) \o WriteCsv(all_comments')
                  /\ writes' = writes + 1
             ELSE UNCHANGED <<file, writes>>

\* after a thread item: the next item of the page, the next page, or the
\* end of the while loop (168, 249-257); left is the number of items left
NextItem(rows, left) ==
  IF left > 0
  THEN /\ pc' = "item"
       /\ pending' = left
       /\ comments' = rows
       /\ cur' = NoThread
       /\ rp' = 0
       /\ delay' = 0
       /\ UNCHANGED <<vi, more, pg, all_comments, total_top_comments,
                      total_replies, file, writes, vstate>>
  ELSE IF ListNext(pg, more) # None
  THEN /\ pc' = "thread_page"
       /\ pg' = ListNext(pg, more)
       /\ delay' = SleepBetweenPages(ListNext(pg, more))
       /\ pending' = 0
       /\ more' = FALSE
       /\ comments' = rows
       /\ cur' = NoThread
       /\ rp' = 0
       /\ UNCHANGED <<vi, all_comments, total_top_comments, total_replies,
                      file, writes, vstate>>
  ELSE FinishVideo(rows, "DONE")

\* get_video_comments returns [] from its handler, comments disabled or
\* another error (259-264)
ThreadsFailed(outcome) ==
  /\ Log(Delivery("thread_error", None, None, 0))
  /\ FinishVideo(OnThreadError(comments), outcome)
  /\ UNCHANGED <<videos, fault, api, fresh, used>>
  /\ UNCHANGED <<file_before, durVars, labelVars>>

\* a thread page request fails, on any page; for an HttpError the text of the
\* error holds "commentsDisabled" or not (166, 259-264)
ThreadPageError ==
  /\ pc = "thread_page"
  /\ \E exc \in RemoteErrors :
       IF Caught("threads", exc)
       THEN \E disabled \in BOOLEAN :
              ThreadsFailed(IF disabled THEN "DISABLED" ELSE "FAILED")
       ELSE Crash(exc)

\* a thread page request answers with n items and maybe a continuation
\* token (166, 250-254)
ThreadPageOk ==
  /\ pc = "thread_page"
  /\ \E n \in 0..MaxItems, next \in BOOLEAN :
       /\ next => pg < MaxPages
       /\ n + Cost(next) <= Budget
       /\ used' = used + n + Cost(next)
       /\ Log(Delivery("thread_page", pg, Cost(next), n))
       /\ IF n > 0
          THEN /\ pc' = "item"
               /\ pending' = n
               /\ more' = next
               /\ delay' = 0
               /\ UNCHANGED <<vi, comments, pg, cur, rp, all_comments,
                              total_top_comments, total_replies, file, writes,
                              vstate>>
          ELSE IF ListNext(pg, next) # None
          THEN /\ pg' = ListNext(pg, next)
               /\ delay' = SleepBetweenPages(ListNext(pg, next))
               /\ UNCHANGED <<pc, vi, comments, pending, more, cur, rp,
                              all_comments, total_top_comments, total_replies,
                              file, writes, vstate>>
          ELSE FinishVideo(comments, "DONE")
  /\ UNCHANGED <<videos, fault, api, fresh>>
  /\ UNCHANGED <<file_before, durVars, labelVars>>

\* the largest suffix among the replies of thread t the API has delivered
SeenSuffix(t) ==
  SeqMax([k \in 1..MaxVideos |->
            SeqMax([j \in 1..Len(delivered[k]) |->
                      IF delivered[k][j].kind \in {"inline", "listed"}
                         /\ delivered[k][j].parent = t
                      THEN delivered[k][j].id - 10 * t ELSE 0])])

\* the thread items of the current thread page processed so far
RECURSIVE OnThisPage(_, _)
OnThisPage(log, j) ==
  IF j = 0 \/ log[j].kind = "thread_page" THEN {}
  ELSE (IF log[j].kind = "top" THEN {log[j].id} ELSE {}) \cup OnThisPage(log, j - 1)

\* one thread item of the page: the top-level row, the inline replies, and
\* the decision to list the replies (168-217); a page lists a thread once
ThreadItem ==
  /\ pc = "item"
  /\ \E comment_id \in 1..Larger(1, IF fresh < MaxThreads THEN fresh + 1 ELSE fresh),
        total \in TotalCounts :
     \E suffixes \in FreshSeqs(SeenSuffix(comment_id), MaxSuffix, MaxInline) :
       /\ Len(suffixes) <= Budget
       /\ comment_id \notin OnThisPage(delivered[vi], Len(delivered[vi]))
       /\ LET inline == [k \in 1..Len(suffixes) |-> ReplyId(comment_id, suffixes[k])]
              video_id == videos[vi].video_id
              rows == AppendInline(Append(comments, TopRow(video_id, comment_id)),
                                   video_id, comment_id, inline)
          IN /\ used' = used + Len(inline)
             /\ fresh' = Larger(fresh, comment_id)
             /\ LogAll(<<Delivery("top", comment_id, None, total)>> \o
                       [k \in 1..Len(inline) |->
                          Delivery("inline", inline[k], comment_id, 0)])
             /\ IF NeedsMoreReplies(total, Len(inline))
                THEN /\ pc' = "reply_page"
                     /\ cur' = [id |-> comment_id, total |-> total,
                                fetched |-> Len(inline)]
                     /\ rp' = 0
                     /\ delay' = SleepBeforeReplies
                     /\ pending' = pending - 1
                     /\ comments' = rows
                     /\ UNCHANGED <<vi, more, pg, all_comments,
                                    total_top_comments, total_replies, file,
                                    writes, vstate>>
                ELSE NextItem(rows, pending - 1)
  /\ UNCHANGED <<videos, fault, api>>
  /\ UNCHANGED <<file_before, durVars, labelVars>>

\* a thread item whose comment, or whose inline reply, has a snippet with no
\* authorDisplayName: top_comment["authorDisplayName"] raises KeyError
\* inside a try that catches HttpError (178, 195)
ThreadItemMalformed ==
  /\ pc = "item"
  /\ \E c \in ThreadIds : KeyError(SnippetNoAuthor(c), SnippetKeys)
  /\ ~Caught("threads", "KeyError")
  /\ Crash("KeyError")

\* a reply-listing request fails; an HttpError: the handler prints and the
\* loop over the thread items goes on (228, 245-247); were it not caught
\* there, the handler of the thread requests would take it (259-264)
ReplyPageError ==
  /\ pc = "reply_page"
  /\ \E exc \in RemoteErrors :
       IF Caught("replies", exc)
       THEN /\ Log(Delivery("reply_error", None, cur.id, 0))
            /\ NextItem(OnReplyError(comments), pending)
            /\ UNCHANGED <<videos, fault, api, fresh, used>>
            /\ UNCHANGED <<file_before, durVars, labelVars>>
       ELSE IF Caught("threads", exc) THEN ThreadsFailed("FAILED")
       ELSE Crash(exc)

\* a reply-listing request answers with a page of replies of the thread and
\* maybe a continuation token (217-244)
ReplyPageOk ==
  /\ pc = "reply_page"
  /\ \E suffixes \in FreshSeqs(SeenSuffix(cur.id), MaxSuffix, MaxReplies),
        next \in BOOLEAN :
       /\ next => rp + 1 < MaxReplyPages
       /\ Len(suffixes) + Cost(next) <= Budget
       /\ LET replies == [k \in 1..Len(suffixes) |-> ReplyId(cur.id, suffixes[k])]
              rows == AppendListed(comments, videos[vi].video_id, cur.id, replies)
          IN /\ used' = used + Len(replies) + Cost(next)
             /\ LogAll(<<Delivery("reply_page", None, cur.id, 0)>> \o
                       [k \in 1..Len(replies) |->
                          Delivery("listed", replies[k], cur.id, 0)])
             /\ IF next
                THEN /\ comments' = rows
                     /\ rp' = rp + 1
                     /\ delay' = SleepBeforeReplies
                     /\ UNCHANGED <<pc, vi, pending, more, pg, cur,
                                    all_comments, total_top_comments,
                                    total_replies, file, writes, vstate>>
                ELSE NextItem(rows, pending)
  /\ UNCHANGED <<videos, fault, api, fresh>>
  /\ UNCHANGED <<file_before, durVars, labelVars>>

\* a reply-listing request answers with a reply whose snippet has no
\* authorDisplayName: reply_snippet["authorDisplayName"] raises KeyError,
\* which neither try catches (235)
ReplyMalformed ==
  /\ pc = "reply_page"
  /\ \E c \in ThreadIds : KeyError(SnippetNoAuthor(ReplyId(c, 1)), SnippetKeys)
  /\ ~Caught("replies", "KeyError")
  /\ ~Caught("threads", "KeyError")
  /\ Crash("KeyError")

Next ==
  \/ NoApiKey
  \/ Start
  \/ SearchError
  \/ SearchOk
  \/ SearchMalformed
  \/ DetailsError
  \/ DetailsOk
  \/ DetailsMalformed
  \/ ThreadPageError
  \/ ThreadPageOk
  \/ ThreadItem
  \/ ThreadItemMalformed
  \/ ReplyPageError
  \/ ReplyPageOk
  \/ ReplyMalformed

Spec == Init /\ [][Next]_vars

\* the run as the interpreter executes it: statement after statement, and a
\* remote call returns or raises
SpecFair == Init /\ [][Next]_vars /\ WF_vars(Next)

\* ------------------------------------------- parse_duration on its own
\* the digits the duration tokens are written with
TokenDigits == {"0", "1", "2", "3", "5", "U+0663"}

\* a component's digits: none (the component is left out) or 1..MaxDigits
Components ==
  {<<>>} \cup UNION { [1..n -> TokenDigits] : n \in 1..MaxDigits }

\* the token PT[nH][nM][nS] written from its components
WriteToken(p) ==
  <<"P", "T">> \o (IF p.h = <<>> THEN <<>> ELSE p.h \o <<"H">>)
               \o (IF p.m = <<>> THEN <<>> ELSE p.m \o <<"M">>)
               \o (IF p.s = <<>> THEN <<>> ELSE p.s \o <<"S">>)

\* parse_duration is about to be called on a token PT[nH][nM][nS], on the
\* empty token or on no token
InitDur ==
  /\ RunIdle
  /\ file = NoFile
  /\ file_before = NoFile
  /\ dur_pc = "idle"
  /\ dur_result = 0
  /\ LabelIdle
  /\ \/ /\ parts \in [h : Components, m : Components, s : Components]
        /\ token = WriteToken(parts)
     \/ /\ parts = NoParts
        /\ token \in {<<>>, NoToken}

CallParseDuration ==
  /\ dur_pc = "idle"
  /\ dur_result' = parse_duration(token)
  /\ dur_pc' = "done"
  /\ UNCHANGED <<token, parts>>
  /\ UNCHANGED runVars
  /\ UNCHANGED labelVars

NextDur == CallParseDuration

SpecDur == InitDur /\ [][NextDur]_vars

\* ------------------------------------------------------------- C9
\* the number a component's digits write, most significant digit first
RECURSIVE Written(_)
Written(d) ==
  IF d = <<>> THEN 0
  ELSE DigitVal(d[1]) * (CASE Len(d) = 1 -> 1 [] Len(d) = 2 -> 10
                           [] Len(d) = 3 -> 100 [] OTHER -> 1000)
       + Written(Tail(d))

\* C9: parse_duration returns hours*3600 + minutes*60 + seconds for a token
\* PT[nH][nM][nS], each component optional, and 0 for the empty token, for
\* no token and for a token without components.
C9_DurationOfComponents ==
  dur_pc = "done" =>
    dur_result = Written(parts.h) * 3600 + Written(parts.m) * 60 + Written(parts.s)

\* PT1H2M3S was parsed to 3723
C9_Witness ==
  /\ dur_pc = "done"
  /\ token = <<"P", "T", "1", "H", "2", "M", "3", "S">>
  /\ dur_result = 3723

\* ------------------------------------------------- what the claims speak of
\* position of video v in the search result
Vid(k) == videos[k].video_id

\* the exported rows that carry the identifier of video k
RowsOfVideo(k) == SelectSeq(all_comments, LAMBDA row : row.video_id = Vid(k))

\* identifier, parent and flag of a row, and of a delivered comment
RowKey(row) == <<row.comment_id, row.parent_id, row.is_reply>>
DeliveryKey(e) == <<e.id, e.parent, e.kind # "top">>
Keys(rows) == [p \in 1..Len(rows) |-> RowKey(rows[p])]

IsComment(e) == e.kind \in {"top", "inline", "listed"}

\* the comments of a log in the order first observed: every thread item and
\* inline reply, and a listed reply unless its identifier was delivered before
RECURSIVE FirstObserved(_, _)
FirstObserved(log, j) ==
  IF j > Len(log) THEN <<>>
  ELSE (IF /\ IsComment(log[j])
           /\ (log[j].kind = "listed" =>
                 \A i \in 1..(j - 1) : IsComment(log[i]) => log[i].id # log[j].id)
        THEN <<DeliveryKey(log[j])>> ELSE <<>>) \o FirstObserved(log, j + 1)

\* the thread item a log entry belongs to: the last "top" entry at or before j
RECURSIVE ThreadOf(_, _)
ThreadOf(log, j) ==
  IF j = 0 THEN 0 ELSE IF log[j].kind = "top" THEN j ELSE ThreadOf(log, j - 1)

\* the entries of the thread item that starts at entry t
Block(log, t) == {j \in 1..Len(log) : j > t /\ ThreadOf(log, j) = t}

InlineCount(log, t) ==
  Cardinality({j \in Block(log, t) : log[j].kind = "inline"})

Range(f) == {f[x] : x \in DOMAIN f}

\* ------------------------------------------------------------- C1
\* C1: when the run has completed, no comment_id appears in more than one
\* row of the exported row list.
C1_UniqueCommentIds ==
  pc = "done" =>
    \A p, q \in 1..Len(all_comments) :
      p # q => all_comments[p].comment_id # all_comments[q].comment_id

\* ------------------------------------------------------------- C2
ParentConsistent(rows) ==
  \A p \in 1..Len(rows) :
    /\ rows[p].is_reply <=> rows[p].parent_id # None
    /\ rows[p].parent_id # None =>
         \E q \in 1..Len(rows) :
           /\ ~rows[q].is_reply
           /\ rows[q].comment_id = rows[p].parent_id
           /\ rows[q].video_id = rows[p].video_id

\* C2: every row get_video_comments produces and scrape_comments exports has
\* is_reply true iff parent_id is not None, and a parent_id that is not None
\* is the comment_id of a top-level row of the same video.
C2_ParentConsistency ==
  /\ ParentConsistent(comments)
  /\ ParentConsistent(all_comments)

\* a reply fetched from the reply listing has been exported
C2_Witness ==
  /\ pc = "done"
  /\ \E k \in 1..Len(videos) :
       \E j \in 1..Len(delivered[k]) :
         /\ delivered[k][j].kind = "listed"
         /\ \E p \in 1..Len(all_comments) :
              /\ all_comments[p].is_reply
              /\ all_comments[p].comment_id = delivered[k][j].id

\* ------------------------------------------------------------- C3
\* the reply listing of the thread item at entry t answered every request
ListingSucceeded(log, t) ==
  /\ \E j \in Block(log, t) : log[j].kind = "reply_page"
  /\ \A j \in Block(log, t) : log[j].kind # "reply_error"

\* C3: for a thread whose total_reply_count exceeds its inline reply count
\* and whose reply-listing pages all succeed, get_video_comments returns
\* exactly one reply row per reply identifier of the inline replies and the
\* listed replies of that parent.
C3_TwoSourceCompleteness ==
  \A k \in 1..Len(videos) :
    vstate[k] # "PENDING" =>
      LET log == delivered[k] IN
      \A t \in 1..Len(log) :
        (/\ log[t].kind = "top"
         /\ log[t].total > InlineCount(log, t)
         /\ ListingSucceeded(log, t)) =>
          \A j \in Block(log, t) :
            log[j].kind \in {"inline", "listed"} =>
              Cardinality({p \in 1..Len(all_comments) :
                             /\ all_comments[p].video_id = Vid(k)
                             /\ all_comments[p].is_reply
                             /\ all_comments[p].parent_id = log[t].id
                             /\ all_comments[p].comment_id = log[j].id}) = 1

\* ------------------------------------------------------------- C4
\* the comments delivered for video k are the exported rows of video k
ExportsDelivered(k) ==
  /\ \A j \in 1..Len(delivered[k]) :
       IsComment(delivered[k][j]) =>
         \E p \in 1..Len(all_comments) :
           /\ all_comments[p].video_id = Vid(k)
           /\ RowKey(all_comments[p]) = DeliveryKey(delivered[k][j])
  /\ \A p \in 1..Len(all_comments) :
       all_comments[p].video_id = Vid(k) =>
         \E j \in 1..Len(delivered[k]) :
           /\ IsComment(delivered[k][j])
           /\ RowKey(all_comments[p]) = DeliveryKey(delivered[k][j])

\* C4: a video whose thread retrieval fails, comments disabled or another
\* HTTP error, does not end the run: every video is still visited, the rows
\* of each video retrieved to the end are exported, the video with comments
\* disabled has no row, and the file holds the accumulated rows.
C4_FailureIsolation ==
  /\ \A k \in 1..Len(videos) :
       vstate[k] \in {"DISABLED", "FAILED"} => (vi > k \/ pc = "done")
  /\ pc = "done" =>
       /\ \A k \in 1..Len(videos) :
            /\ vstate[k] # "PENDING"
            /\ vstate[k] = "DONE" => ExportsDelivered(k)
            /\ vstate[k] = "DISABLED" => RowsOfVideo(k) = <<>>
       /\ all_comments # <<>> => file = WriteCsv(all_comments)

\* three videos, the second with comments disabled, the first and the third
\* with a row each in the written file
C4_Witness ==
  /\ pc = "done"
  /\ Len(videos) = 3
  /\ vstate = <<"DONE", "DISABLED", "DONE">>
  /\ RowsOfVideo(1) # <<>>
  /\ RowsOfVideo(2) = <<>>
  /\ RowsOfVideo(3) # <<>>
  /\ Len(file) = 1 + Len(all_comments)

\* ------------------------------------------------------------- C5
\* C5: when a thread request fails, the comments and replies collected for
\* the video before the failure are returned and appear in the export.
C5_PartialResultsKept ==
  \A k \in 1..Len(videos) :
    vstate[k] = "FAILED" => Keys(RowsOfVideo(k)) = FirstObserved(delivered[k], 1)

\* ------------------------------------------------------------- C6
\* the step in which a reply-listing request fails
ReplyListingFails ==
  /\ pc = "reply_page"
  /\ Len(delivered'[vi]) = Len(delivered[vi]) + 1
  /\ delivered'[vi][Len(delivered'[vi])].kind = "reply_error"

\* C6: a failed reply-listing request ends only the reply fetch of its
\* thread: the rows collected so far stay, the next thread item of the page
\* comes next, else the next thread page, else the video ends DONE with all
\* its rows exported.
C6_ReplyFailureIsLocal ==
  [][ReplyListingFails =>
       IF pending > 0
       THEN pc' = "item" /\ pending' = pending /\ vi' = vi /\ comments' = comments
       ELSE IF more
       THEN pc' = "thread_page" /\ pg' = pg + 1 /\ vi' = vi /\ comments' = comments
       ELSE /\ vstate'[vi] = "DONE"
            /\ Keys(SelectSeq(all_comments', LAMBDA row : row.video_id = Vid(vi)))
                 = Keys(comments)]_vars

\* a video ended DONE with the rows of a thread whose reply listing failed
\* after a first page, and with a thread processed after it
C6_Witness ==
  \E k \in 1..Len(videos) :
    /\ vstate[k] = "DONE"
    /\ \E j \in 1..Len(delivered[k]) :
         /\ delivered[k][j].kind = "reply_error"
         /\ \E i \in 1..(j - 1) :
              /\ delivered[k][i].kind = "listed"
              /\ ThreadOf(delivered[k], i) = ThreadOf(delivered[k], j)
              /\ \E p \in 1..Len(all_comments) :
                   all_comments[p].comment_id = delivered[k][i].id
         /\ \E i \in (j + 1)..Len(delivered[k]) :
              /\ delivered[k][i].kind = "top"
              /\ \E p \in 1..Len(all_comments) :
                   all_comments[p].comment_id = delivered[k][i].id

\* ------------------------------------------------------------- C7
\* C7: within one video the rows are in the order first observed: the
\* top-level comments in thread-page order, each followed by its inline
\* replies, then by its listed replies, before the next top-level comment.
C7_RowOrder ==
  /\ pc \in {"thread_page", "item", "reply_page"} =>
       Keys(comments) = FirstObserved(delivered[vi], 1)
  /\ \A k \in 1..Len(videos) :
       vstate[k] = "DONE" => Keys(RowsOfVideo(k)) = FirstObserved(delivered[k], 1)

\* the export A, rA1 (inline), rA2 (listed), B
C7_Witness ==
  /\ pc = "done"
  /\ Len(all_comments) = 4
  /\ \E k \in 1..Len(videos) :
       /\ Len(delivered[k]) >= 5
       /\ delivered[k][2].kind = "top"
       /\ delivered[k][3].kind = "inline"
       /\ \E j \in 1..Len(delivered[k]) :
            /\ delivered[k][j].kind = "listed"
            /\ delivered[k][j].id # delivered[k][3].id
            /\ Keys(all_comments)[3] = DeliveryKey(delivered[k][j])
       /\ Keys(all_comments)[1] = DeliveryKey(delivered[k][2])
       /\ Keys(all_comments)[2] = DeliveryKey(delivered[k][3])
       /\ ~all_comments[4].is_reply
       /\ all_comments[4].comment_id # all_comments[1].comment_id

\* ------------------------------------------------------------- C8
\* the detail response held data for the video
HasDetails(video) == "view_count" \in DOMAIN video

\* C8: the video fields of every exported row are those of the Video record
\* with the row's video_id, and the defaults (0 and the empty description)
\* when the detail response held no data for that video.
C8_RowDecoration ==
  \A p \in 1..Len(all_comments) :
    LET row == all_comments[p] IN
    \E k \in 1..Len(videos) :
      LET video == videos[k] IN
      /\ video.video_id = row.video_id
      /\ row.relevance_rank = video.relevance_rank
      /\ row.relevance_rank = k
      /\ row.video_title = video.title
      /\ row.video_channel = video.channel
      /\ row.video_published_at = video.video_published_at
      /\ IF HasDetails(video)
         THEN /\ row.video_view_count = video.view_count
              /\ row.video_like_count = video.like_count
              /\ row.video_comment_count = video.comment_count
              /\ row.video_duration = video.duration
              /\ row.video_description = video.description
              /\ LET item == DetailItem(row.video_id) IN
                 "statistics" \in DOMAIN item =>
                   /\ DecimalOf(row.video_view_count) = item.statistics.viewCount
                   /\ DecimalOf(row.video_like_count) = item.statistics.likeCount
         ELSE /\ row.video_view_count = 0
              /\ row.video_like_count = 0
              /\ row.video_comment_count = 0
              /\ row.video_duration = 0
              /\ row.video_description = ""

\* rows of a video with detail data and of a video without were exported
C8_Witness ==
  /\ pc = "done"
  /\ \E p, q \in 1..Len(all_comments) :
       /\ all_comments[p].video_duration = 300
       /\ all_comments[p].video_view_count > 0
       /\ all_comments[q].video_view_count = 0
       /\ all_comments[q].video_description = ""

\* ------------------------------------------------------------- C10
\* C10: a reply-listing request is made for a thread only when its
\* total_reply_count is greater than its number of inline replies; for a
\* thread with total_reply_count at most that number none is made.
C10_ListingOnlyWhenNeeded ==
  /\ pc = "reply_page" => cur.total > cur.fetched
  /\ \A k \in 1..Len(videos) :
       LET log == delivered[k] IN
       \A j \in 1..Len(log) :
         log[j].kind \in {"reply_page", "reply_error"} =>
           LET t == ThreadOf(log, j) IN
           /\ t > 0
           /\ log[t].total > InlineCount(log, t)

\* a thread with as many inline replies as its total was passed without a
\* request, and a thread with fewer got one
C10_Witness ==
  \E k \in 1..Len(videos) :
    LET log == delivered[k] IN
    /\ vstate[k] = "DONE"
    /\ \E t \in 1..Len(log) :
         /\ log[t].kind = "top"
         /\ log[t].total <= InlineCount(log, t)
         /\ \A j \in Block(log, t) : log[j].kind = "inline"
    /\ \E t \in 1..Len(log) :
         /\ log[t].kind = "top"
         /\ log[t].total > InlineCount(log, t)
         /\ InlineCount(log, t) > 0
         /\ \E j \in Block(log, t) : log[j].kind = "reply_page"

\* ------------------------------------------------------------- C11
\* the search call raised HttpError, or answered with no item
SearchGaveNothing ==
  \/ api.search = "error"
  \/ api.search = "ok" /\ api.found = <<>>

\* C11: when the search call errors or returns no video, search_videos'
\* result is the empty list and scrape_comments has ended: no thread request
\* and no reply-listing request was made for any video, and output_file was
\* not opened for writing and holds what it held before the run.
C11_NoVideosEndsEarly ==
  SearchGaveNothing =>
    /\ pc = "ended"
    /\ videos = <<>>
    /\ \A k \in 1..MaxVideos : delivered[k] = <<>> /\ vstate[k] = "PENDING"
    /\ all_comments = <<>>
    /\ writes = 0
    /\ file = file_before

\* the search call failed on a run that found an earlier file in place
C11_Witness ==
  /\ pc = "ended"
  /\ api.search = "error"
  /\ file = OldFile

\* ------------------------------------------------------------- C12
\* the detail call gave nothing for the video of rank k: it failed, or its
\* response has no item for the video
NoDetailFor(k) ==
  \/ api.details = "error"
  \/ api.details = "ok" /\ api.found[k] \notin api.present

\* C12: once the detail call is over, every video of the search response is
\* in the video list, in its place, whether the detail call gave data for it
\* or not. The rows of a video it gave nothing for carry the defaults: view,
\* like and comment count 0, duration 0, empty description. Such a video is
\* visited like the others, and at the end of the run its rows, which are
\* the comments delivered for it when its retrieval ended DONE, are in the
\* rows written to output_file.
C12_MissingDetailsKeepVideo ==
  api.details # "none" =>
    /\ Len(videos) = Len(api.found)
    /\ \A k \in 1..Len(videos) :
         /\ Vid(k) = api.found[k]
         /\ NoDetailFor(k) =>
              /\ \A p \in 1..Len(all_comments) :
                   all_comments[p].video_id = Vid(k) =>
                     /\ all_comments[p].video_view_count = 0
                     /\ all_comments[p].video_like_count = 0
                     /\ all_comments[p].video_comment_count = 0
                     /\ all_comments[p].video_duration = 0
                     /\ all_comments[p].video_description = ""
                     /\ pc = "done" =>
                          /\ file[p + 1][1] = ToString(Vid(k))
                          /\ file[p + 1][2] = ToString(all_comments[p].comment_id)
                          /\ file[p + 1][9] = "0"
              /\ pc = "done" => vstate[k] # "PENDING"
              /\ vstate[k] = "DONE" => ExportsDelivered(k)

\* the detail response had no item for one video, data for another, and the
\* rows of both were written
C12_Witness ==
  /\ pc = "done"
  /\ api.details = "ok"
  /\ \E j, k \in 1..Len(videos) :
       /\ NoDetailFor(k)
       /\ ~NoDetailFor(j)
       /\ \E p, q \in 1..Len(all_comments) :
            /\ all_comments[p].video_id = Vid(k)
            /\ all_comments[q].video_id = Vid(j)
            /\ all_comments[q].video_view_count > 0
            /\ file[p + 1][9] = "0"

\* ------------------------------------------------------------- C13
\* the log of video k holds an event of this kind
Logged(k, kind) == \E j \in 1..Len(delivered[k]) : delivered[k][j].kind = kind

\* C13: no failure of a remote call, an HttpError or a transport timeout,
\* raised by the search call, the detail call, a thread request or a
\* reply-listing request ever leaves scrape_comments. After a
\* failed search the run has ended; after a failed detail call the run goes
\* on with the videos; a failed thread request ends the retrieval of its
\* video, DISABLED or FAILED, and nothing else is requested for that video;
\* after a failed reply listing the thread it was for is left and the run
\* goes on.
C13_RemoteFailuresHandled ==
  /\ fault \notin RemoteErrors
  /\ api.search = "error" => pc = "ended"
  /\ api.details = "error" => pc \in {"thread_page", "item", "reply_page", "done"}
  /\ \A k \in 1..Len(videos) :
       LET log == delivered[k] IN
       /\ Logged(k, "thread_error") =>
            /\ vstate[k] \in {"DISABLED", "FAILED"}
            /\ log[Len(log)].kind = "thread_error"
            /\ pc = "done" \/ vi > k
       /\ (log # <<>> /\ log[Len(log)].kind = "reply_error") =>
            \/ vstate[k] = "DONE"
            \/ k = vi /\ pc \in {"item", "thread_page"}

\* ------------------------------------------------------------- C14
\* C14: a response item with a missing field never raises: no KeyError
\* leaves scrape_comments.
C14_MissingFieldsGetDefaults == fault # "KeyError"

\* ------------------------------------------------------------- C15
\* C15: once output_file has been written it holds the header, the 17
\* column names, and after it one line per row of the accumulator, in the
\* accumulator's order, each with the row's identifiers, its parent (empty
\* for a top-level comment) and its reply flag in their columns; it holds
\* no line of the file that was there before; and writing the same rows
\* again would leave the same content.
C15_ExportHeaderAndRows ==
  writes > 0 =>
    /\ Len(file) = 1 + Len(all_comments)
    /\ Len(file[1]) = 17
    /\ file[1] = fieldnames
    /\ \A p \in 1..Len(all_comments) :
         LET row == all_comments[p]
             line == file[p + 1]
         IN /\ Len(line) = Len(file[1])
            /\ line[1] = ToString(row.video_id)
            /\ line[2] = ToString(row.comment_id)
            /\ line[3] = (IF row.is_reply THEN ToString(row.parent_id) ELSE "")
            /\ line[4] = (IF row.is_reply THEN "True" ELSE "False")
            /\ line[5] = ToString(row.relevance_rank)
            /\ line[14] = row.author
            /\ line[15] = row.comment_text
    /\ \A p \in 1..Len(file) : \A q \in 1..Len(OldFile) : file[p] # OldFile[q]
    /\ OpenW(file) \o WriteCsv(all_comments) = file

\* a run that found an earlier file in place wrote a top-level row and a
\* reply row over it
C15_Witness ==
  /\ pc = "done"
  /\ writes = 1
  /\ file_before = OldFile
  /\ \E p, q \in 2..Len(file) : p < q /\ file[p][4] = "False" /\ file[q][4] = "True"

\* ------------------------------------------------------------- C16
\* no two reply rows of rows carry the same comment_id
ReplyIdsOnce(rows) ==
  \A p, q \in 1..Len(rows) :
    (p # q /\ rows[p].is_reply /\ rows[q].is_reply) =>
      rows[p].comment_id # rows[q].comment_id

\* C16: in the list get_video_comments builds for a video, and in the rows
\* it has returned for a video retrieved before, each reply identifier is in
\* at most one row.
C16_ReplyIdsOnce ==
  /\ ReplyIdsOnce(comments)
  /\ \A k \in 1..Len(videos) : ReplyIdsOnce(RowsOfVideo(k))

\* ------------------------------------------------------------- C17
\* the reply row of video k with identifier id exists
HasReplyRow(k, id) ==
  \E p \in 1..Len(all_comments) :
    /\ all_comments[p].video_id = Vid(k)
    /\ all_comments[p].is_reply
    /\ all_comments[p].comment_id = id

\* a call of get_video_comments starts with an empty list, its list holds
\* rows of its own video only, and of a video retrieved to the end every
\* reply the reply listing delivered has a row, whatever the other videos
\* hold
ScopedToVideo ==
  /\ (pc = "thread_page" /\ pg = 1) => comments = <<>>
  /\ \A p \in 1..Len(comments) : comments[p].video_id = Vid(vi)
  /\ \A k \in 1..Len(videos) :
       vstate[k] = "DONE" =>
         \A j \in 1..Len(delivered[k]) :
           delivered[k][j].kind = "listed" => HasReplyRow(k, delivered[k][j].id)

\* a step of the run leaves the rows accumulated before it as they are
EarlierRowsKept ==
  pc' # "crashed" =>
    /\ Len(all_comments') >= Len(all_comments)
    /\ SubSeq(all_comments', 1, Len(all_comments)) = all_comments

\* C17: the list a get_video_comments call tests reply identifiers against
\* is its own: it starts empty and holds rows of the call's video only, so a
\* listed reply whose identifier has a row in an earlier video still gets
\* its row in this video; and no step changes or removes a row returned by
\* an earlier call.
C17_DedupScopedPerVideo == [](ScopedToVideo) /\ [][EarlierRowsKept]_vars

\* the reply listing delivered, for a later video, a reply whose identifier
\* has a row in an earlier video, and it has a row in the later video too
C17_Witness ==
  /\ pc = "done"
  /\ \E j, k \in 1..Len(videos) :
       /\ j < k
       /\ \E e \in 1..Len(delivered[k]) :
            /\ delivered[k][e].kind = "listed"
            /\ HasReplyRow(j, delivered[k][e].id)
            /\ HasReplyRow(k, delivered[k][e].id)

\* ------------------------------------------------------------- C18
\* the answered thread requests of a log, in order
PageEvents(log) == SelectSeq(log, LAMBDA e : e.kind = "thread_page")

\* the number of thread items the pages hold together
RECURSIVE ItemsOf(_)
ItemsOf(pages) ==
  IF pages = <<>> THEN 0 ELSE pages[1].total + ItemsOf(Tail(pages))

\* the number of thread items of a log processed so far
TopCount(log) == Cardinality({j \in 1..Len(log) : log[j].kind = "top"})

\* the number of top-level rows exported for video k
TopRowCount(k) ==
  Cardinality({p \in 1..Len(all_comments) :
                 all_comments[p].video_id = Vid(k) /\ ~all_comments[p].is_reply})

\* C18: the thread pages of a video are requested in order, page 1, 2, ...,
\* none skipped and none twice, each page after the first only because the
\* page before it carried a continuation token. While a page is processed
\* every item of the pages before it and the items of this page handled so
\* far have been turned into a top-level row; a retrieval in which no thread
\* request failed ends after a page without continuation token, with
\* exactly one top-level row per thread item of all its pages.
C18_ExhaustiveThreadPages ==
  \A k \in 1..Len(videos) :
    LET log == delivered[k]
        pages == PageEvents(log)
    IN /\ \A i \in 1..Len(pages) : pages[i].id = i
       /\ \A i \in 1..(Len(pages) - 1) : pages[i].parent = 1
       /\ (k = vi /\ pc \in {"item", "reply_page"}) =>
            /\ TopCount(log) + pending = ItemsOf(pages)
            /\ CountTop(comments) = TopCount(log)
       /\ (k = vi /\ pc = "thread_page" /\ pages # <<>>) =>
            /\ pages[Len(pages)].parent = 1
            /\ CountTop(comments) = ItemsOf(pages)
       /\ vstate[k] = "DONE" =>
            /\ pages # <<>>
            /\ pages[Len(pages)].parent = 0
            /\ TopCount(log) = ItemsOf(pages)
            /\ TopRowCount(k) = ItemsOf(pages)

\* a video retrieved to the end over two pages that hold three thread items
C18_Witness ==
  \E k \in 1..Len(videos) :
    /\ vstate[k] = "DONE"
    /\ Len(PageEvents(delivered[k])) = 2
    /\ \A i \in 1..2 : PageEvents(delivered[k])[i].total >= 1
    /\ TopRowCount(k) = 3

\* ------------------------------------------------------------- C19
\* the run is over: exported or nothing to export, ended early, or left by
\* an exception
Terminated == pc \in {"done", "ended", "crashed"}

\* the most steps a thread item, a thread page and a video can take when a
\* pagination has at most MaxPages thread pages of at most MaxItems items
\* and at most MaxReplyPages reply pages
ItemSteps == 1 + MaxReplyPages
PageSteps == 1 + MaxItems * ItemSteps
VideoSteps == MaxPages * PageSteps

\* a bound on the number of steps the run can still take
Rank ==
  LET later == (Len(videos) - vi) * VideoSteps
      laterPages == (MaxPages - pg) * PageSteps
  IN CASE pc = "start" -> 3 + MaxVideos * VideoSteps
       [] pc = "search" -> 2 + MaxVideos * VideoSteps
       [] pc = "details" -> 1 + MaxVideos * VideoSteps
       [] pc = "thread_page" -> later + laterPages + PageSteps
       [] pc = "item" -> later + laterPages + pending * ItemSteps
       [] pc = "reply_page" ->
            later + laterPages + pending * ItemSteps + (MaxReplyPages - rp)
       [] OTHER -> 0

\* every step brings the end of the run nearer, and the state a video's
\* retrieval has ended in stays
Progress ==
  /\ Rank' < Rank
  /\ Rank' >= 0
  /\ \A k \in 1..MaxVideos :
       (vstate[k] # "PENDING" /\ pc' # "crashed") => vstate'[k] = vstate[k]

C20_RankOrder ==
  /\ \A k \in 1..Len(videos) :
       /\ videos[k].relevance_rank = k
       /\ videos[k].video_id = api.found[k]
  /\ \A k \in 2..Len(videos) : vstate[k] # "PENDING" => vstate[k - 1] # "PENDING"
  /\ \A k \in 1..Len(videos) :
       (pc \in {"thread_page", "item", "reply_page"} /\ k < vi) => vstate[k] # "PENDING"
  /\ \A p \in 1..Len(all_comments) :
       /\ all_comments[p].relevance_rank \in 1..Len(videos)
       /\ all_comments[p].video_id = api.found[all_comments[p].relevance_rank]
  /\ \A p \in 1..(Len(all_comments) - 1) :
       all_comments[p].relevance_rank <= all_comments[p + 1].relevance_rank
  /\ \A p, q \in 1..Len(all_comments) :
       (p < q /\ all_comments[p].video_id = all_comments[q].video_id) =>
         \A r \in p..q : all_comments[r].video_id = all_comments[p].video_id

\* two rows of the video of rank 1 and after them two rows of the video of
\* rank 2 were written
C20_Witness ==
  /\ pc = "done"
  /\ Len(all_comments) = 4
  /\ all_comments[1].relevance_rank = 1
  /\ all_comments[2].relevance_rank = 1
  /\ all_comments[3].relevance_rank = 2
  /\ all_comments[4].relevance_rank = 2
  /\ writes = 1

\* ------------------------------------------------------------- C21
\* the requests a log holds: answered and failed thread requests, answered
\* and failed reply-listing requests
IsRequest(e) ==
  e.kind \in {"thread_page", "thread_error", "reply_page", "reply_error"}

RequestCount(log) == Cardinality({j \in 1..Len(log) : IsRequest(log[j])})

\* the videos whose log a step extends
Served == {k \in 1..MaxVideos : delivered'[k] # delivered[k]}

\* one remote call at a time, in the order search, details, videos
OneCallInOrder ==
  pc' # "crashed" =>
    /\ api'.search # api.search =>
         /\ api.search = "none" /\ pc = "search"
         /\ api'.details = api.details /\ Served = {}
    /\ api'.details # api.details =>
         /\ api.details = "none" /\ api.search = "ok" /\ pc = "details"
         /\ api'.search = api.search /\ Served = {}
    /\ \A k \in Served :
         /\ Served = {k}
         /\ api' = api
         /\ api.search = "ok" /\ api.details # "none"
         /\ k = vi
         /\ vstate[k] = "PENDING"
         /\ \A j \in 1..(k - 1) : vstate[j] # "PENDING"
         /\ \A j \in (k + 1)..MaxVideos : delivered[j] = <<>>
         /\ RequestCount(delivered'[k]) <= RequestCount(delivered[k]) + 1

\* C21: every step of the run makes at most one remote call. The search
\* call is made once, before anything else; the detail call at most once,
\* after an answered search and before any thread request; a request for a
\* video is made only while that video is the one being retrieved, every
\* video ahead of it has ended DONE, DISABLED or FAILED, and no video after
\* it has been asked anything.
C21_SequentialCalls == [][OneCallInOrder]_vars

\* a run over three videos made at least one request for each of them, two
\* for the second
C21_Witness ==
  /\ pc = "done"
  /\ Len(videos) = 3
  /\ api.details = "ok"
  /\ \A k \in 1..3 : RequestCount(delivered[k]) >= 1
  /\ RequestCount(delivered[2]) >= 2

\* ------------------------------------------------------------- C22
\* C22: within the retrieval of a video no request follows a failed thread
\* request, and after a failed reply-listing request for a thread no
\* reply-listing request for that thread is made again.
C22_NoRetry ==
  \A k \in 1..Len(videos) :
    LET log == delivered[k] IN
    \A j \in 1..Len(log) :
      /\ log[j].kind = "thread_error" => j = Len(log)
      /\ log[j].kind = "reply_error" =>
           \A m \in (j + 1)..Len(log) :
             log[m].kind \in {"reply_page", "reply_error"} =>
               log[m].parent # log[j].parent

\* C23: the delay slept before a remote request is fixed by the kind of the
\* request alone: the between-videos delay before the first thread page of
\* every video after the first and none once the last video is finished, the
\* shorter reply delay before every reply-listing request, the page delay
\* before every thread page after the first of a video; an earlier failure
\* changes none of them
C23_FixedDelays ==
  /\ SleepBeforeReplies < VideoDelay
  /\ pc = "reply_page" => delay = SleepBeforeReplies
  /\ pc = "thread_page" /\ pg > 1 => delay = PageDelay
  /\ pc = "thread_page" /\ pg = 1 /\ vi > 1 => delay = VideoDelay
  /\ pc = "thread_page" /\ pg = 1 /\ vi = 1 => delay = 0
  /\ pc = "done" => delay = 0

C23_Witness ==
  /\ pc = "reply_page"
  /\ vi = 2
  /\ pg = 2
  /\ vstate[1] = "FAILED"
  /\ \E j \in 1..Len(delivered[2]) : delivered[2][j].kind = "reply_error"
  /\ delay = SleepBeforeReplies

\* the rows of the accumulator that are, or are not, replies
RowsWith(is_reply) ==
  {p \in 1..Len(all_comments) : all_comments[p].is_reply = is_reply}

\* C24: in every state between two videos and at the end of the run the
\* running totals describe the accumulator: total_top_comments is the number
\* of its rows that are not replies, total_replies the number that are, and
\* the two add up to its length
C24_TotalsMatchAccumulator ==
  /\ total_top_comments = Cardinality(RowsWith(FALSE))
  /\ total_replies = Cardinality(RowsWith(TRUE))
  /\ total_top_comments + total_replies = Len(all_comments)

C24_Witness ==
  /\ pc = "done"
  /\ Len(videos) = 2
  /\ \A k \in 1..2 : \E p \in 1..Len(all_comments) : all_comments[p].video_id = Vid(k)
  /\ total_top_comments >= 2
  /\ total_replies >= 1

\* C25: the export file is opened for writing at most once in a run, by the
\* step that finishes the last video and only when the accumulator holds a
\* row; until then, and in a run that collects no row at all, no file is
\* created and a file already there keeps its content
C25_ExportOnceAtEnd ==
  /\ writes <= 1
  /\ writes = 1 => pc = "done" /\ all_comments # <<>>
  /\ pc = "done" /\ Len(videos) > 0 /\ all_comments # <<>> => writes = 1
  /\ writes = 0 => file = file_before

C25_Witness ==
  /\ pc = "done"
  /\ Len(videos) = 2
  /\ vstate[1] = "DISABLED"
  /\ vstate[2] = "FAILED"
  /\ all_comments = <<>>
  /\ writes = 0
  /\ file = OldFile

\* --------------------------------------- label_comments (label_comments.py)
\* REQUESTS_PER_MINUTE (32)
REQUESTS_PER_MINUTE == 50

\* DELAY_BETWEEN_REQUESTS = 60.0 / REQUESTS_PER_MINUTE, in tenths of a
\* second (33)
DELAY_BETWEEN_REQUESTS == 600 \div REQUESTS_PER_MINUTE

\* CHECKPOINT_INTERVAL (36)
CHECKPOINT_INTERVAL == 100

\* the values of CommentSentiment.sentiment the model distinguishes (26)
Sentiments == {"negative", "positive"}

\* label_sentiment returned None (146-148)
NoLabel == "None"

\* the joined input of n rows, row_index = range(len(df)) (238); a row may
\* miss its comment text or its summary (271)
Frames ==
  UNION { { [k \in 1..n |-> [row_index |-> k - 1, missing |-> miss[k]]] :
            miss \in [1..n -> BOOLEAN] } : n \in 0..MaxRows }

\* df.head(max_comments) when max_comments is given and positive (241-245)
Limited(frame, n) ==
  IF n # None /\ n > 0 /\ n < Len(frame) THEN SubSeq(frame, 1, n) ELSE frame

\* result = row.to_dict() with the label's fields (291-295)
LabelledRow(row, label) == [row_index |-> row.row_index, sentiment |-> label]

\* the line csv.DictWriter writes for a result: the index in decimal (188)
OutputRow(result) ==
  [row_index |-> DecimalOf(result.row_index), sentiment |-> result.sentiment]

\* load_checkpoint: the row_index column of the output file read back as
\* numbers, the empty set when there is no file (161-169)
load_checkpoint(output) ==
  IF ~output.exists THEN {}
  ELSE {IntOf(output.rows[j].row_index, 1, Len(output.rows[j].row_index)) :
          j \in 1..Len(output.rows)}

\* save_checkpoint: open(output_file, "w") and the rows of results (185-188)
save_checkpoint(output, res) ==
  [exists |-> TRUE, rows |-> [k \in 1..Len(res) |-> OutputRow(res[k])]]

\* the comments file is there and label_comments has not been run
InitLabel ==
  /\ RunIdle
  /\ file = NoFile
  /\ file_before = NoFile
  /\ DurIdle
  /\ label_pc = "idle"
  /\ df \in Frames
  /\ max_comments = None
  /\ labeled_file = Absent
  /\ processed_indices = {}
  /\ results = <<>>
  /\ li = 0
  /\ skipped = 0
  /\ earlier = Absent
  /\ calls = {}
  /\ saves = 0
  /\ runs = 0
  /\ label_delay = 0

\* label_comments returns before it reads the output file: no API key, no
\* prompt file or no data (206-227)
LabelNotReady ==
  /\ label_pc \in {"idle", "done"}
  /\ runs < MaxRuns
  /\ runs' = runs + 1
  /\ label_pc' = "done"
  /\ earlier' = labeled_file
  /\ calls' = {}
  /\ saves' = 0
  /\ UNCHANGED <<df, max_comments, labeled_file, processed_indices, results,
                 li, skipped, label_delay>>
  /\ UNCHANGED <<runVars, durVars>>

\* label_comments up to its for loop: the limit, load_checkpoint and the
\* empty results list (229-257)
StartLabel ==
  /\ label_pc \in {"idle", "done"}
  /\ runs < MaxRuns
  /\ runs' = runs + 1
  /\ \E n \in {None} \cup 1..MaxRows : max_comments' = n
  /\ processed_indices' = load_checkpoint(labeled_file)
  /\ results' = <<>>
  /\ skipped' = 0
  /\ li' = 1
  /\ label_pc' = "row"
  /\ earlier' = labeled_file
  /\ calls' = {}
  /\ saves' = 0
  /\ UNCHANGED <<df, labeled_file, label_delay>>
  /\ UNCHANGED <<runVars, durVars>>

\* the row the for loop is at
Row == Limited(df, max_comments)[li]
\* the loop is at the top of an iteration
InLoop ==
  /\ label_pc = "row"
  /\ label_delay = 0
  /\ li <= Len(Limited(df, max_comments))

\* if row_index in processed_indices: skipped += 1; continue (263-265)
SkipProcessed ==
  /\ InLoop
  /\ Row.row_index \in processed_indices
  /\ skipped' = skipped + 1
  /\ li' = li + 1
  /\ UNCHANGED <<label_pc, df, max_comments, labeled_file, processed_indices,
                 results, earlier, calls, saves, runs, label_delay>>
  /\ UNCHANGED <<runVars, durVars>>

\* if pd.isna(comment_text) or pd.isna(summary_text): continue (271-273)
SkipMissing ==
  /\ InLoop
  /\ Row.row_index \notin processed_indices
  /\ Row.missing
  /\ li' = li + 1
  /\ UNCHANGED <<label_pc, df, max_comments, labeled_file, processed_indices,
                 results, skipped, earlier, calls, saves, runs, label_delay>>
  /\ UNCHANGED <<runVars, durVars>>

\* one row labelled: the call and the append when a label came back; the
\* process then sleeps at time.sleep(DELAY_BETWEEN_REQUESTS) (275-302)
LabelRow ==
  /\ InLoop
  /\ Row.row_index \notin processed_indices
  /\ ~Row.missing
  /\ \E label \in Sentiments \cup {NoLabel} :
       /\ calls' = calls \cup {Row.row_index}
       /\ results' = IF label # NoLabel
                     THEN Append(results, LabelledRow(Row, label))
                     ELSE results
  /\ label_delay' = DELAY_BETWEEN_REQUESTS
  /\ UNCHANGED <<label_pc, df, max_comments, labeled_file, processed_indices,
                 li, skipped, earlier, saves, runs>>
  /\ UNCHANGED <<runVars, durVars>>

\* after the sleep: the checkpoint when len(results) is a multiple of the
\* interval, and the next iteration (304-306)
Checkpoint ==
  /\ label_pc = "row"
  /\ label_delay # 0
  /\ label_delay' = 0
  /\ IF Len(results) % CHECKPOINT_INTERVAL = 0
     THEN /\ labeled_file' = save_checkpoint(labeled_file, results)
          /\ saves' = saves + 1
     ELSE UNCHANGED <<labeled_file, saves>>
  /\ li' = li + 1
  /\ UNCHANGED <<label_pc, df, max_comments, processed_indices, results,
                 skipped, earlier, calls, runs>>
  /\ UNCHANGED <<runVars, durVars>>

\* after the loop: if results: save_checkpoint (309-316)
FinalSave ==
  /\ label_pc = "row"
  /\ li > Len(Limited(df, max_comments))
  /\ label_pc' = "done"
  /\ IF results # <<>>
     THEN /\ labeled_file' = save_checkpoint(labeled_file, results)
          /\ saves' = saves + 1
     ELSE UNCHANGED <<labeled_file, saves>>
  /\ UNCHANGED <<df, max_comments, processed_indices, results, li, skipped,
                 earlier, calls, runs, label_delay>>
  /\ UNCHANGED <<runVars, durVars>>

NextLabel ==
  \/ LabelNotReady
  \/ StartLabel
  \/ SkipProcessed
  \/ SkipMissing
  \/ LabelRow
  \/ Checkpoint
  \/ FinalSave

SpecLabel == InitLabel /\ [][NextLabel]_vars

\* ------------------------------------------------------------- C26
\* the row indices a file of label_comments records
Recorded(output) ==
  {r.row_index : r \in {output.rows[j] : j \in 1..Len(output.rows)}}

\* no row recorded by the earlier run is given to label_sentiment again
NotLabelledAgain ==
  \A k \in calls : DecimalOf(k) \notin Recorded(earlier)

\* the output file still holds every line the earlier run left in it
EarlierRowsStillThere ==
  \A j \in 1..Len(earlier.rows) :
    \E p \in 1..Len(labeled_file.rows) : labeled_file.rows[p] = earlier.rows[j]

\* the output file holds the rows labelled in this run
NewRowsThere ==
  \A j \in 1..Len(results) :
    \E p \in 1..Len(labeled_file.rows) :
      labeled_file.rows[p] = OutputRow(results[j])

\* C26: in a run started on the output file of an earlier run no row whose
\* row_index that file records is labelled again, and once the run has
\* saved, by a checkpoint or by its final save, the file holds every row the
\* earlier run recorded; at the end of a run that labelled rows it holds
\* those rows too
C26_ResumeKeepsEarlierRows ==
  /\ NotLabelledAgain
  /\ saves > 0 => EarlierRowsStillThere
  /\ label_pc = "done" /\ results # <<>> => NewRowsThere

\* ------------------------------------ parse_duration on malformed tokens
\* a component of a malformed token: left out, or one digit
ShortComponents == {<<>>} \cup { <<d>> : d \in TokenDigits }

\* a component with its letter, nothing when the component is left out
Piece(d, letter) == IF d = <<>> THEN <<>> ELSE d \o <<letter>>

PartOf(p, letter) ==
  CASE letter = "H" -> p.h [] letter = "M" -> p.m [] letter = "S" -> p.s

\* the orders of the three components other than hours, minutes, seconds
Orders ==
  {<<"H", "S", "M">>, <<"M", "H", "S">>, <<"M", "S", "H">>,
   <<"S", "H", "M">>, <<"S", "M", "H">>}

\* the components written in another order, as in PT5S3M
WriteInOrder(p, order) ==
  <<"P", "T">> \o Piece(PartOf(p, order[1]), order[1])
               \o Piece(PartOf(p, order[2]), order[2])
               \o Piece(PartOf(p, order[3]), order[3])

\* the component of the letter written with a minus sign, as in PT1H-5M
WriteNegative(p, letter) ==
  <<"P", "T">>
    \o (IF letter = "H" THEN <<"-">> ELSE <<>>) \o Piece(p.h, "H")
    \o (IF letter = "M" THEN <<"-">> ELSE <<>>) \o Piece(p.m, "M")
    \o (IF letter = "S" THEN <<"-">> ELSE <<>>) \o Piece(p.s, "S")

\* other text: a day component (P1DT2H), no PT at all (5M), a trailing
\* character (PT5MX)
WriteOtherText(p, kind) ==
  CASE kind = "days" -> <<"P", "1", "D", "T">> \o Piece(p.h, "H")
                          \o Piece(p.m, "M") \o Piece(p.s, "S")
    [] kind = "bare" -> Piece(p.h, "H") \o Piece(p.m, "M") \o Piece(p.s, "S")
    [] kind = "trailing" -> WriteToken(p) \o <<"X">>

\* the token is PT[nH][nM][nS] from its first to its last character
WellFormed(s) ==
  /\ Len(s) >= 2
  /\ s[1] = "P"
  /\ s[2] = "T"
  /\ LET h == MatchGroup(s, 3, "H")
         m == MatchGroup(s, h.next, "M")
         sec == MatchGroup(s, m.next, "S")
     IN sec.next = Len(s) + 1

\* parse_duration is about to be called on a token that is not of the form
\* PT[nH][nM][nS]
InitMalformed ==
  /\ RunIdle
  /\ file = NoFile
  /\ file_before = NoFile
  /\ LabelIdle
  /\ dur_pc = "idle"
  /\ dur_result = 0
  /\ parts \in [h : ShortComponents, m : ShortComponents, s : ShortComponents]
  /\ \/ \E order \in Orders : token = WriteInOrder(parts, order)
     \/ \E letter \in {"H", "M", "S"} :
          /\ PartOf(parts, letter) # <<>>
          /\ token = WriteNegative(parts, letter)
     \/ \E kind \in {"days", "bare", "trailing"} :
          token = WriteOtherText(parts, kind)
  /\ token # <<>>
  /\ ~WellFormed(token)

SpecMalformed == InitMalformed /\ [][NextDur]_vars

\* C27: parse_duration returns 0 for a token that is not of the form
\* PT[nH][nM][nS]: components out of order, a component with a minus sign,
\* or other text; it does not return the sum of the components it could read
C27_MalformedIsZero ==
  dur_pc = "done" /\ token # <<>> /\ token # NoToken /\ ~WellFormed(token)
    => dur_result = 0
====
